---- MODULE Spec2Model ----
(***************************************************************************)
(* SankeySaldo: the SIE record parser (src/sie_parser.py) and the flow     *)
(* summarizer (src/sankey_generator.py) as state machines.                 *)
(*                                                                         *)
(* Text is a sequence of one-character strings, so that the tokenizers,    *)
(* str.strip, str.split and float() are computed character by character,   *)
(* as the code computes them.  A dict is a sequence of [key, val] records  *)
(* with distinct keys, in insertion order, as a Python dict is.            *)
(***************************************************************************)
EXTENDS Integers, Sequences, FiniteSets, TLC

(* ---------------------------- bounds ----------------------------------- *)

\* Lines per file given to one parse call.
MaxLines == 3

\* parse_sie_file calls made on one SIEParser instance in SpecReuse.
MaxCalls == 2

\* Rows of the transaction table given to the flow summarizer.
MaxRows == 3

\* Entries of the account mapping given to the flow summarizer.
MaxAccounts == 2

(* ------------------------- Python str helpers -------------------------- *)

QUOTE == "\""

\* str.isspace() for the characters that occur after split('\n').
IsSpace(c) == c \in {" ", "\t", "\r"}

RECURSIVE LStripSet(_, _)
LStripSet(s, cs) ==
    IF s # <<>> /\ Head(s) \in cs THEN LStripSet(Tail(s), cs) ELSE s

RECURSIVE RStripSet(_, _)
RStripSet(s, cs) ==
    IF s # <<>> /\ s[Len(s)] \in cs
    THEN RStripSet(SubSeq(s, 1, Len(s) - 1), cs)
    ELSE s

\* str.strip(chars): drop leading and trailing characters that are in cs.
StripChars(s, cs) == RStripSet(LStripSet(s, cs), cs)

\* str.strip(): drop leading and trailing whitespace.
Strip(s) == StripChars(s, {" ", "\t", "\r"})

\* sep.join(parts) with sep a single space.
RECURSIVE JoinSp(_)
JoinSp(parts) ==
    IF parts = <<>> THEN <<>>
    ELSE IF Len(parts) = 1 THEN parts[1]
    ELSE parts[1] \o <<" ">> \o JoinSp(Tail(parts))

\* parts[n:] of a Python list (n is 0-based).
From(parts, n) == SubSeq(parts, n + 1, Len(parts))

\* text.split('\n'): always at least one piece, the empty text gives [''].
RECURSIVE SplitLoop(_, _, _)
SplitLoop(text, cur, out) ==
    IF text = <<>> THEN Append(out, cur)
    ELSE IF Head(text) = "\n" THEN SplitLoop(Tail(text), <<>>, Append(out, cur))
    ELSE SplitLoop(Tail(text), Append(cur, Head(text)), out)

SplitLines(text) == SplitLoop(text, <<>>, <<>>)

\* '\n'.join(lines): how a file is laid out from its lines.
RECURSIVE JoinNl(_)
JoinNl(ls) ==
    IF ls = <<>> THEN <<>>
    ELSE IF Len(ls) = 1 THEN ls[1]
    ELSE ls[1] \o <<"\n">> \o JoinNl(Tail(ls))

\* str.replace(',', '.')
ReplaceComma(s) == [i \in 1..Len(s) |-> IF s[i] = "," THEN "." ELSE s[i]]

(* ------------------------------ dicts ---------------------------------- *)

DictKeys(d) == {d[i].key : i \in 1..Len(d)}

DictGet(d, k) == LET i == CHOOSE j \in 1..Len(d) : d[j].key = k IN d[i].val

\* d[k] = v: an existing key keeps its position, a new key goes last.
DictSet(d, k, v) ==
    IF k \in DictKeys(d)
    THEN [i \in 1..Len(d) |-> IF d[i].key = k THEN [key |-> k, val |-> v] ELSE d[i]]
    ELSE Append(d, [key |-> k, val |-> v])

\* d.get(k, default)
DictGetOr(d, k, default) == IF k \in DictKeys(d) THEN DictGet(d, k) ELSE default

(* ---------------------------- tokenizers ------------------------------- *)

\* The quote-aware splitter of every line (the loop over `line`).
RECURSIVE TokLoop(_, _, _, _)
TokLoop(rest, parts, current_part, in_quotes) ==
    IF rest = <<>>
    THEN IF current_part # <<>> THEN Append(parts, current_part) ELSE parts
    ELSE LET char == Head(rest) IN
         IF char = QUOTE
         THEN TokLoop(Tail(rest), parts, current_part, ~in_quotes)
         ELSE IF IsSpace(char) /\ ~in_quotes
         THEN IF current_part # <<>>
              THEN TokLoop(Tail(rest), Append(parts, current_part), <<>>, in_quotes)
              ELSE TokLoop(Tail(rest), parts, current_part, in_quotes)
         ELSE TokLoop(Tail(rest), parts, Append(current_part, char), in_quotes)

Tokenize(line) == TokLoop(line, <<>>, <<>>, FALSE)

\* The splitter of a transaction line's interior (the loop over `trans_line`):
\* a quote that does not follow a space also ends the current token.
RECURSIVE TransTokLoop(_, _, _, _, _)
TransTokLoop(trans_line, i, trans_parts, current_part, in_quotes) ==
    IF i > Len(trans_line)
    THEN IF current_part # <<>> THEN Append(trans_parts, current_part) ELSE trans_parts
    ELSE LET char == trans_line[i] IN
         IF char = QUOTE
         THEN IF i > 1 /\ trans_line[i - 1] # " " /\ current_part # <<>>
              THEN TransTokLoop(trans_line, i + 1, Append(trans_parts, current_part),
                                <<>>, ~in_quotes)
              ELSE TransTokLoop(trans_line, i + 1, trans_parts, current_part, ~in_quotes)
         ELSE IF IsSpace(char) /\ ~in_quotes
         THEN IF current_part # <<>>
              THEN TransTokLoop(trans_line, i + 1, Append(trans_parts, current_part),
                                <<>>, in_quotes)
              ELSE TransTokLoop(trans_line, i + 1, trans_parts, current_part, in_quotes)
         ELSE TransTokLoop(trans_line, i + 1, trans_parts,
                           Append(current_part, char), in_quotes)

TransTokenize(trans_line) == TransTokLoop(trans_line, 1, <<>>, <<>>, FALSE)

(* ------------------------------ float() -------------------------------- *)

Digits == {"0", "1", "2", "3", "4", "5", "6", "7", "8", "9"}

DigitVal(c) == CHOOSE n \in 0..9 : <<"0", "1", "2", "3", "4", "5", "6", "7", "8", "9">>[n + 1] = c

RECURSIVE DigitsVal(_, _)
DigitsVal(s, acc) ==
    IF s = <<>> THEN acc ELSE DigitsVal(Tail(s), acc * 10 + DigitVal(Head(s)))

\* A decimal m / 10^e, with no trailing zero in the fraction.
RECURSIVE Normal(_, _)
Normal(m, e) ==
    IF e > 0 /\ m % 10 = 0 THEN Normal(m \div 10, e - 1) ELSE [m |-> m, e |-> e]

\* Python's float(s) on the decimal literals: surrounding whitespace is
\* dropped, then an optional sign, digits and at most one '.', at least one
\* digit.  Anything else raises ValueError (ok = FALSE).  Exponents, inf, nan
\* and digit-group underscores are not written with the characters the model's
\* files use.
ParseFloat(s) ==
    LET t      == Strip(s)
        signed == t # <<>> /\ Head(t) \in {"+", "-"}
        body   == IF signed THEN Tail(t) ELSE t
        dots   == {i \in 1..Len(body) : body[i] = "."}
        wellformed ==
            /\ \A i \in 1..Len(body) : body[i] \in Digits \cup {"."}
            /\ Cardinality(dots) <= 1
            /\ \E i \in 1..Len(body) : body[i] \in Digits
        dot    == IF dots = {} THEN Len(body) + 1 ELSE CHOOSE i \in dots : TRUE
        whole  == SubSeq(body, 1, dot - 1)
        frac   == SubSeq(body, dot + 1, Len(body))
        mag    == DigitsVal(whole \o frac, 0)
        m      == IF signed /\ Head(t) = "-" THEN 0 - mag ELSE mag
    IN  IF wellformed
        THEN [ok |-> TRUE, value |-> Normal(m, Len(frac))]
        ELSE [ok |-> FALSE, value |-> [m |-> 0, e |-> 0]]

\* The literal 0.0 an amount starts as.
ZeroAmount == [m |-> 0, e |-> 0]

(* --------------------------- record keywords --------------------------- *)

KW_FNAMN == <<"#", "F", "N", "A", "M", "N">>

KW_RAR == <<"#", "R", "A", "R">>

KW_KONTO == <<"#", "K", "O", "N", "T", "O">>

KW_VER == <<"#", "V", "E", "R">>

\* The column set of the transaction table.
Columns == <<"date", "account", "amount", "description", "ver_series", "ver_number">>

(* ------------------------- the files that are parsed ------------------- *)

\* #FNAMN "Acme AB"
LineFnamn ==
    <<"#", "F", "N", "A", "M", "N", " ", "\"", "A", "c", "m", "e", " ",
      "A", "B", "\"">>

\* #RAR 0 2023
LineRar ==
    <<"#", "R", "A", "R", " ", "0", " ", "2", "0", "2", "3">>

\* #KONTO 19 "Bank"
LineKontoBank ==
    <<"#", "K", "O", "N", "T", "O", " ", "1", "9", " ", "\"", "B", "a",
      "n", "k", "\"">>

\* #KONTO 19 "Bank ny"
LineKontoBankRenamed ==
    <<"#", "K", "O", "N", "T", "O", " ", "1", "9", " ", "\"", "B", "a",
      "n", "k", " ", "n", "y", "\"">>

\* #KONTO 30 Sales
LineKontoSales ==
    <<"#", "K", "O", "N", "T", "O", " ", "3", "0", " ", "S", "a", "l",
      "e", "s">>

\* #KONTO 19
LineKontoNoName ==
    <<"#", "K", "O", "N", "T", "O", " ", "1", "9">>

\* #KONTO
LineKontoBare ==
    <<"#", "K", "O", "N", "T", "O">>

\* #VER A 1 20 "M  c"
LineVerQuoted ==
    <<"#", "V", "E", "R", " ", "A", " ", "1", " ", "2", "0", " ", "\"",
      "M", " ", " ", "c", "\"">>

\* #VER A 1 20 "M  c" 21
LineVerQuotedReg ==
    <<"#", "V", "E", "R", " ", "A", " ", "1", " ", "2", "0", " ", "\"",
      "M", " ", " ", "c", "\"", " ", "2", "1">>

\* {20 19 10,50}
LineTrans ==
    <<"{", "2", "0", " ", "1", "9", " ", "1", "0", ",", "5", "0", "}">>

\* {20 19 abc}
LineTransBadAmount ==
    <<"{", "2", "0", " ", "1", "9", " ", "a", "b", "c", "}">>

\* {20}
LineTransOneToken ==
    <<"{", "2", "0", "}">>

\* {20 30 -5 "own t"}
LineTransOwnText ==
    <<"{", "2", "0", " ", "3", "0", " ", "-", "5", " ", "\"", "o", "w",
      "n", " ", "t", "\"", "}">>

\* {20 19}
LineTransNoAmount ==
    <<"{", "2", "0", " ", "1", "9", "}">>

\* }
LineClose ==
    <<"}">>

\* (an empty line)
LineEmpty ==
    <<>>

\* The lines a file is written from.
Corpus ==
    { LineFnamn, LineRar, LineKontoBank, LineKontoBankRenamed, LineKontoSales,
      LineKontoNoName, LineKontoBare, LineVerQuoted, LineVerQuotedReg,
      LineTrans, LineTransBadAmount, LineTransOneToken, LineTransOwnText,
      LineTransNoAmount, LineClose, LineEmpty }

\* The lines of the files given to a parser instance that is used again.
ReuseCorpus == { LineKontoBank, LineKontoSales, LineVerQuoted, LineTrans, LineEmpty }

\* The byte buffers written from `from`: one to MaxLines lines joined by '\n'.
\* The file of one empty line is the empty buffer.
FilesOf(from) ==
    { JoinNl(ls) : ls \in UNION { [1..n -> from] : n \in 1..MaxLines } }

(* ------------------------------- state --------------------------------- *)

VARIABLES
    pc,               \* "idle" | "loop" | "returned" | "raised": where the call is
    calls,            \* parse_sie_file calls started on this instance
    accounts,         \* self.accounts
    transactions,     \* self.transactions
    company_name,     \* self.company_name
    fiscal_year,      \* self.fiscal_year
    content,          \* the argument of the running call
    lines,            \* decoded_content.split('\n')
    line_num,         \* the number of the next line of the loop (from 1)
    current_ver,      \* <<>> is None, <<v>> an open verification
    parsing_ver,
    line_types,
    parsing_details,
    row_src,          \* history: the call and line each row was added from
    results,          \* what the calls on this instance returned, in order
    sk_pc,            \* the flow summarizer: "ready" | "done" | "raised"
    df,               \* SankeyGenerator.df: the rows
    sk_accounts,      \* SankeyGenerator.accounts
    nodes,
    links

parserVars ==
    <<pc, calls, accounts, transactions, company_name, fiscal_year, content,
      lines, line_num, current_ver, parsing_ver, line_types, parsing_details,
      row_src, results>>

sankeyVars == <<sk_pc, df, sk_accounts, nodes, links>>

vars == <<parserVars, sankeyVars>>

(* ------------------------ one line of the loop ------------------------- *)

\* content.decode(encoding) over ['cp437', 'utf-8', 'iso-8859-1']: cp437 maps
\* every byte, so the first attempt succeeds; on the ASCII bytes the files are
\* written with it gives the same characters.
Decode(bytes) == [text |-> bytes, used_encoding |-> "cp437"]

\* What the loop body reads and writes, as one record.
LoopState ==
    [accounts |-> accounts, transactions |-> transactions,
     company_name |-> company_name, fiscal_year |-> fiscal_year,
     current_ver |-> current_ver, parsing_ver |-> parsing_ver,
     line_types |-> line_types, parsing_details |-> parsing_details,
     row_src |-> row_src]

Detail(kind, n, text) == [kind |-> kind, line |-> n, text |-> text]

\* line_types[identifier] = line_types.get(identifier, 0) + 1
CountType(lt, identifier) == DictSet(lt, identifier, DictGetOr(lt, identifier, 0) + 1)

\* #FNAMN
FnamnBranch(st, parts, n) ==
    LET name == StripChars(JoinSp(From(parts, 1)), {QUOTE})
    IN  [st EXCEPT !.company_name = name,
                   !.parsing_details = Append(@, Detail("company", n, name))]

\* #RAR: parts[1] if len(parts) > 1 else parts[2]; the IndexError of a bare
\* #RAR is caught and only logged.
RarBranch(st, parts, n) ==
    IF Len(parts) > 1
    THEN [st EXCEPT !.fiscal_year = parts[2],
                    !.parsing_details = Append(@, Detail("fiscal_year", n, parts[2]))]
    ELSE st

\* KontoBranch with the first declaration of a number kept: a later #KONTO
\* line for a number already mapped changes nothing.
KontoBranchKeepsFirst(st, parts) ==
    IF Len(parts) >= 2 /\ parts[2] \notin DictKeys(st.accounts)
    THEN [st EXCEPT !.accounts =
             DictSet(@, parts[2], StripChars(JoinSp(From(parts, 2)), {QUOTE}))]
    ELSE st

\* #KONTO
KontoBranch(st, parts) ==
    IF Len(parts) >= 2
    THEN LET account_num  == parts[2]
             account_name == StripChars(JoinSp(From(parts, 2)), {QUOTE})
         IN  [st EXCEPT !.accounts = DictSet(@, account_num, account_name)]
    ELSE st

\* VerOf with the text taken one token early, from the date on.
VerOfTextFromDate(parts) ==
    LET ver_parts == [i \in 1..(Len(parts) - 1) |-> StripChars(parts[i + 1], {QUOTE})]
    IN  [series |-> IF Len(ver_parts) > 0 THEN ver_parts[1] ELSE <<>>,
         number |-> IF Len(ver_parts) > 1 THEN ver_parts[2] ELSE <<>>,
         date   |-> IF Len(ver_parts) > 2 THEN ver_parts[3] ELSE <<>>,
         text   |-> IF Len(ver_parts) > 2 THEN JoinSp(From(ver_parts, 2)) ELSE <<>>]

\* The verification a #VER line opens.
VerOf(parts) ==
    LET ver_parts == [i \in 1..(Len(parts) - 1) |-> StripChars(parts[i + 1], {QUOTE})]
    IN  [series |-> IF Len(ver_parts) > 0 THEN ver_parts[1] ELSE <<>>,
         number |-> IF Len(ver_parts) > 1 THEN ver_parts[2] ELSE <<>>,
         date   |-> IF Len(ver_parts) > 2 THEN ver_parts[3] ELSE <<>>,
         text   |-> IF Len(ver_parts) > 3 THEN JoinSp(From(ver_parts, 3)) ELSE <<>>]

\* #VER
VerBranch(st, parts, n) ==
    LET ver == VerOf(parts)
    IN  [st EXCEPT !.parsing_ver = TRUE,
                   !.current_ver = <<ver>>,
                   !.parsing_details =
                       Append(@, Detail("verification", n,
                                        ver.series \o <<"-">> \o ver.number))]

\* TransAmount with a conversion failure caught on the spot: the amount stays 0.0.
TransAmountOrZero(trans_parts) ==
    IF Len(trans_parts) >= 3
       /\ ParseFloat(ReplaceComma(StripChars(trans_parts[3], {QUOTE}))).ok
    THEN ParseFloat(ReplaceComma(StripChars(trans_parts[3], {QUOTE})))
    ELSE [ok |-> TRUE, value |-> ZeroAmount]

\* The amount of a transaction line: 0.0 without a 3rd token, else float() of
\* the 3rd token with ',' replaced by '.', which may raise.
TransAmount(trans_parts) ==
    IF Len(trans_parts) >= 3
    THEN ParseFloat(ReplaceComma(StripChars(trans_parts[3], {QUOTE})))
    ELSE [ok |-> TRUE, value |-> ZeroAmount]

\* description: the tokens from the 4th on, else the verification's text.
TransDescription(trans_parts, ver) ==
    IF Len(trans_parts) > 3
    THEN StripChars(JoinSp(From(trans_parts, 3)), {QUOTE})
    ELSE ver.text

\* A line beginning with '{' while parsing_ver: the try block and its except.
TransBranch(st, line, n, call) ==
    LET trans_line  == Strip(StripChars(line, {"{", "}"}))
        trans_parts == TransTokenize(trans_line)
        ver         == st.current_ver[1]
        amount      == TransAmount(trans_parts)
    IN  IF Len(trans_parts) >= 2
        THEN IF amount.ok
             THEN LET account == StripChars(trans_parts[2], {QUOTE})
                      transaction ==
                          [date        |-> StripChars(trans_parts[1], {QUOTE}),
                           account     |-> account,
                           amount      |-> amount.value,
                           description |-> TransDescription(trans_parts, ver),
                           ver_series  |-> ver.series,
                           ver_number  |-> ver.number]
                  IN  [st EXCEPT !.transactions = Append(@, transaction),
                                 !.row_src = Append(@, [call |-> call, line |-> n]),
                                 !.parsing_details =
                                     Append(@, Detail("added", n, account))]
             ELSE [st EXCEPT !.parsing_details =
                                 Append(@, Detail("error", n, trans_parts[3]))]
        ELSE st

\* CloseBranch that forgets to close: the verification stays the current one.
CloseBranchKeepsScope(st) == st

\* A line beginning with '}' while parsing_ver.
CloseBranch(st) == [st EXCEPT !.parsing_ver = FALSE, !.current_ver = <<>>]

\* Whether the transaction branch takes the line.
TakesTrans(st, line) == st.parsing_ver /\ Head(line) = "{"

\* Whether the terminator branch takes the line.
TakesClose(st, line) == st.parsing_ver /\ Head(line) = "}"

\* The if/elif chain on the first token, after the line is counted.
Dispatch(st, line, parts, n, call) ==
    LET identifier == parts[1]
    IN  IF identifier = KW_FNAMN THEN FnamnBranch(st, parts, n)
        ELSE IF identifier = KW_RAR THEN RarBranch(st, parts, n)
        ELSE IF identifier = KW_KONTO THEN KontoBranch(st, parts)
        ELSE IF identifier = KW_VER THEN VerBranch(st, parts, n)
        ELSE IF TakesTrans(st, line) THEN TransBranch(st, line, n, call)
        ELSE IF TakesClose(st, line) THEN CloseBranch(st)
        ELSE st

\* One iteration of `for line_num, line in enumerate(lines, 1)`.
LineStep(st, raw, n, call) ==
    LET line  == Strip(raw)
        parts == Tokenize(line)
    IN  IF line = <<>> \/ parts = <<>>
        THEN st
        ELSE Dispatch([st EXCEPT !.line_types = CountType(@, parts[1])],
                      line, parts, n, call)

(* ------------------------------ the parser ----------------------------- *)

\* SIEParser(): a new instance; no call is running and nothing was returned.
FreshParser ==
    /\ pc = "idle"
    /\ calls = 0
    /\ accounts = <<>>
    /\ transactions = <<>>
    /\ company_name = <<>>
    /\ fiscal_year = <<>>
    /\ content = <<>>
    /\ lines = <<>>
    /\ line_num = 1
    /\ current_ver = <<>>
    /\ parsing_ver = FALSE
    /\ line_types = <<>>
    /\ parsing_details = <<>>
    /\ row_src = <<>>
    /\ results = <<>>

NoGraph ==
    /\ sk_pc = "idle"
    /\ df = <<>>
    /\ sk_accounts = <<>>
    /\ nodes = <<>>
    /\ links = <<>>

Init == FreshParser /\ NoGraph

\* parse_sie_file(content) up to the loop: decode, refuse a text that is falsy
\* (the ValueError leaves through the outer except, re-raised), split into
\* lines and set the loop's locals.
BeginParseOf(files) ==
    /\ pc \in {"idle", "returned", "raised"}
    /\ \E bytes \in files :
        LET decoded_content == Decode(bytes).text IN
        /\ content' = bytes
        /\ calls' = calls + 1
        /\ IF decoded_content = <<>>
           THEN /\ pc' = "raised"
                /\ UNCHANGED <<lines, line_num, current_ver, parsing_ver,
                               line_types, parsing_details>>
           ELSE /\ pc' = "loop"
                /\ lines' = SplitLines(decoded_content)
                /\ line_num' = 1
                /\ current_ver' = <<>>
                /\ parsing_ver' = FALSE
                /\ line_types' = <<>>
                /\ parsing_details' = <<>>
    /\ UNCHANGED <<accounts, transactions, company_name, fiscal_year, row_src,
                   results, sankeyVars>>

\* The loop body on the next line.
ProcessLine ==
    /\ pc = "loop"
    /\ line_num <= Len(lines)
    /\ \E st \in {LineStep(LoopState, lines[line_num], line_num, calls)} :
        /\ accounts' = st.accounts
        /\ transactions' = st.transactions
        /\ company_name' = st.company_name
        /\ fiscal_year' = st.fiscal_year
        /\ current_ver' = st.current_ver
        /\ parsing_ver' = st.parsing_ver
        /\ line_types' = st.line_types
        /\ parsing_details' = st.parsing_details
        /\ row_src' = st.row_src
    /\ line_num' = line_num + 1
    /\ UNCHANGED <<pc, calls, content, lines, results, sankeyVars>>

\* The table the call returns: the rows so far, or no rows under the column set.
DataFrame(rows) == [columns |-> Columns, rows |-> rows]

\* After the loop: build the table and the metadata and return them.  The
\* metadata's 'accounts' is self.accounts itself, not a copy: see MetadataAccounts.
Return ==
    /\ pc = "loop"
    /\ line_num > Len(lines)
    /\ pc' = "returned"
    /\ results' = Append(results,
           [df |-> DataFrame(transactions),
            metadata |-> [company_name |-> company_name,
                          fiscal_year |-> fiscal_year,
                          file_content |-> line_types,
                          parsing_details |-> parsing_details],
            input |-> content,
            call |-> calls])
    /\ UNCHANGED <<calls, accounts, transactions, company_name, fiscal_year,
                   content, lines, line_num, current_ver, parsing_ver,
                   line_types, parsing_details, row_src, sankeyVars>>

\* metadata['accounts'] of a result of this instance: the instance's dict, as
\* it is now.
MetadataAccounts(r) == accounts

\* The caller makes a new SIEParser for the next file (main.py) and lets go of
\* the old instance and what it returned.
Construct ==
    /\ pc \in {"returned", "raised"}
    /\ pc' = "idle"
    /\ calls' = 0
    /\ accounts' = <<>>
    /\ transactions' = <<>>
    /\ company_name' = <<>>
    /\ fiscal_year' = <<>>
    /\ content' = <<>>
    /\ lines' = <<>>
    /\ line_num' = 1
    /\ current_ver' = <<>>
    /\ parsing_ver' = FALSE
    /\ line_types' = <<>>
    /\ parsing_details' = <<>>
    /\ row_src' = <<>>
    /\ results' = <<>>
    /\ UNCHANGED sankeyVars

BeginParse == pc = "idle" /\ BeginParseOf(FilesOf(Corpus))

BeginParseAgain == calls < MaxCalls /\ BeginParseOf(FilesOf(ReuseCorpus))

Next == BeginParse \/ ProcessLine \/ Return \/ Construct

\* One parse per instance, as main.py uses the parser.
Spec == Init /\ [][Next]_vars

NextReuse == BeginParseAgain \/ ProcessLine \/ Return

\* Up to MaxCalls parses on one instance.
SpecReuse == Init /\ [][NextReuse]_vars

(* -------------------------- the flow summarizer ------------------------ *)

\* "Ingående balans", the label of the synthetic opening-balance node.
OpeningLabel ==
    <<"I", "n", "g", "å", "e", "n", "d", "e", " ", "b", "a", "l", "a", "n", "s">>

\* 'Okänt konto', the name of an account the mapping does not have.
UnknownName == <<"O", "k", "ä", "n", "t", " ", "k", "o", "n", "t", "o">>

\* f"{account} - {name}"
Label(account, name) == account \o <<" ", "-", " ">> \o name

\* The decimal a + b.
RECURSIVE Scale(_, _)
Scale(m, k) == IF k = 0 THEN m ELSE Scale(m * 10, k - 1)

AddAmount(a, b) ==
    LET e == IF a.e > b.e THEN a.e ELSE b.e
    IN  Normal(Scale(a.m, e - a.e) + Scale(b.m, e - b.e), e)

\* abs(float(amount))
AbsAmount(a) == [m |-> IF a.m < 0 THEN 0 - a.m ELSE a.m, e |-> a.e]

\* The order of str on texts of digits: character by character, a proper
\* prefix first.
RECURSIVE TextLess(_, _)
TextLess(a, b) ==
    IF b = <<>> THEN FALSE
    ELSE IF a = <<>> THEN TRUE
    ELSE IF Head(a) = Head(b) THEN TextLess(Tail(a), Tail(b))
    ELSE DigitVal(Head(a)) < DigitVal(Head(b))

\* The group keys of groupby('account'), ascending.
RECURSIVE Ascending(_)
Ascending(keys) ==
    IF keys = {} THEN <<>>
    ELSE LET least == CHOOSE k \in keys : \A o \in keys \ {k} : TextLess(k, o)
         IN  <<least>> \o Ascending(keys \ {least})

\* The sum of the amounts of the rows of one account.
RECURSIVE GroupSum(_, _)
GroupSum(rows, account) ==
    IF rows = <<>> THEN ZeroAmount
    ELSE IF Head(rows).account = account
    THEN AddAmount(Head(rows).amount, GroupSum(Tail(rows), account))
    ELSE GroupSum(Tail(rows), account)

\* df.groupby('account')['amount'].sum(): one entry per account, keys ascending.
AccountFlows(rows) ==
    LET keys == Ascending({rows[i].account : i \in 1..Len(rows)})
    IN  [i \in 1..Len(keys) |-> [account |-> keys[i], amount |-> GroupSum(rows, keys[i])]]

\* account_flows[account_flows > 0] and account_flows[account_flows < 0]
PositiveFlows(flows) == SelectSeq(flows, LAMBDA f : f.amount.m > 0)

NegativeFlows(flows) == SelectSeq(flows, LAMBDA f : f.amount.m < 0)

\* The node list: the opening node, then one node per entry of the mapping.
BuildNodes(accts) ==
    <<OpeningLabel>> \o [i \in 1..Len(accts) |-> Label(accts[i].key, accts[i].val)]

\* nodes.index(label): the 0-based place of the first equal entry, or a
\* ValueError (ok = FALSE) when there is none.
Index(ns, label) ==
    IF \E i \in 1..Len(ns) : ns[i] = label
    THEN [ok |-> TRUE,
          at |-> (CHOOSE i \in 1..Len(ns) :
                      ns[i] = label /\ \A j \in 1..(i - 1) : ns[j] # label) - 1]
    ELSE [ok |-> FALSE, at |-> 0]

\* One pass of a link loop over flows: the links appended until the flows
\* are through or nodes.index raises.
RECURSIVE LinkLoop(_, _, _, _, _)
LinkLoop(flows, ns, accts, outward, acc) ==
    IF flows = <<>> \/ ~acc.ok THEN acc
    ELSE LET account_name ==
                 Label(Head(flows).account,
                       DictGetOr(accts, Head(flows).account, UnknownName))
             opening == Index(ns, OpeningLabel)
             node    == Index(ns, account_name)
         IN  IF ~node.ok
             THEN [ok |-> FALSE, links |-> acc.links]
             ELSE LinkLoop(Tail(flows), ns, accts, outward,
                      [ok |-> TRUE,
                       links |-> Append(acc.links,
                           [source |-> IF outward THEN opening.at ELSE node.at,
                            target |-> IF outward THEN node.at ELSE opening.at,
                            value  |-> AbsAmount(Head(flows).amount),
                            color  |-> IF outward THEN "rgba(44, 160, 44, 0.5)"
                                                  ELSE "rgba(214, 39, 40, 0.5)"])])

\* generate_sankey_data up to the figure: the nodes and links it has when it
\* ends, and whether it ended by returning.
SankeyData(rows, accts) ==
    LET flows == AccountFlows(rows)
        ns    == BuildNodes(accts)
        pos   == LinkLoop(PositiveFlows(flows), ns, accts, TRUE,
                          [ok |-> TRUE, links |-> <<>>])
        all   == LinkLoop(NegativeFlows(flows), ns, accts, FALSE, pos)
    IN  [ok |-> all.ok, nodes |-> ns, links |-> all.links]

\* The account numbers and names of the summarizer's inputs.
AccountNums == { <<"1", "9">>, <<"3", "0">> }

NameOf(num) == IF num = <<"1", "9">> THEN <<"B", "a", "n", "k">>
               ELSE <<"S", "a", "l", "e", "s">>

\* The amounts of its rows: 5.0, -5.0 and 10.5.
Amounts == { [m |-> 5, e |-> 0], [m |-> -5, e |-> 0], [m |-> 105, e |-> 1] }

\* The tables: 1 to MaxRows rows (main.py summarizes only a table with rows).
Tables ==
    UNION { [1..n -> [account : AccountNums, amount : Amounts]] : n \in 1..MaxRows }

\* The mappings: up to MaxAccounts declared accounts, in any order.
Mappings ==
    { d \in UNION { [1..n -> [key : AccountNums, val : {NameOf(k) : k \in AccountNums}]]
                    : n \in 0..MaxAccounts } :
        /\ \A i \in 1..Len(d) : d[i].val = NameOf(d[i].key)
        /\ \A i, j \in 1..Len(d) : d[i].key = d[j].key => i = j }

\* SankeyGenerator(df, accounts)
InitSankey ==
    /\ FreshParser
    /\ sk_pc = "ready"
    /\ df \in Tables
    /\ sk_accounts \in Mappings
    /\ nodes = <<>>
    /\ links = <<>>

\* generate_sankey_data()
Generate ==
    /\ sk_pc = "ready"
    /\ \E g \in {SankeyData(df, sk_accounts)} :
        /\ nodes' = g.nodes
        /\ links' = g.links
        /\ sk_pc' = IF g.ok THEN "done" ELSE "raised"
    /\ UNCHANGED <<df, sk_accounts, parserVars>>

NextSankey == Generate

SpecSankey == InitSankey /\ [][NextSankey]_vars

(* ------------------- reading a file, for the properties ---------------- *)

\* The tokens of a line as the loop sees them.
TokensOf(raw) == Tokenize(Strip(raw))

\* The tokens of a transaction line, braces stripped.
TransTokensOf(raw) == TransTokenize(Strip(StripChars(Strip(raw), {"{", "}"})))

\* What the properties read off one line: its first character once stripped
\* ("" for a blank line), its tokens, and its tokens as a transaction line.
ReadingOf(raw) ==
    [first  |-> IF Strip(raw) = <<>> THEN "" ELSE Head(Strip(raw)),
     tokens |-> TokensOf(raw),
     trans  |-> TransTokensOf(raw)]

\* The readings of the lines of the running call, computed once per state.
Readings == SubSeq([n \in 1..Len(lines) |-> ReadingOf(lines[n])], 1, Len(lines))

\* The reading's first token is kw.
IsRecord(r, kw) == r.tokens # <<>> /\ r.tokens[1] = kw

\* A verification scope is open when line n is read: a #VER line precedes it
\* with no line beginning with '}' in between.
ScopeOpenAt(rd, n) ==
    \E m \in 1..(n - 1) :
        /\ IsRecord(rd[m], KW_VER)
        /\ \A j \in (m + 1)..(n - 1) : rd[j].first # "}"

\* The #VER line whose scope line n is read in: the last one before it.
OwnerVer(rd, n) ==
    CHOOSE m \in 1..(n - 1) :
        /\ IsRecord(rd[m], KW_VER)
        /\ \A j \in (m + 1)..(n - 1) : ~IsRecord(rd[j], KW_VER)

\* Line n is a transaction line read inside an open scope.
ScopedTransLine(rd, n) == rd[n].first = "{" /\ ScopeOpenAt(rd, n)

\* The lines of the running call that the loop has been through.
Processed == IF pc \in {"loop", "returned"} THEN 1..(line_num - 1) ELSE {}

\* The running call has returned.  A file cut after any of its lines is a
\* file too, so what holds of every returned call holds after every line.
Returned == pc = "returned"

\* The rows added from line n of the running call.
RowsFrom(n) ==
    {k \in 1..Len(row_src) : row_src[k] = [call |-> calls, line |-> n]}

(* ------------------------------- C1 ------------------------------------ *)

\* C1: every row of the table was added from a line beginning with '{' that
\* was read while a verification scope was open; a '{' line read before the
\* first #VER, or after a '}' and before the next #VER, adds no row.
C1_OrphanLineAddsNoRow ==
    Returned => \A rd \in {Readings} :
        /\ \A n \in Processed :
             (rd[n].first = "{" /\ ~ScopeOpenAt(rd, n)) => RowsFrom(n) = {}
        /\ \A k \in 1..Len(row_src) :
             row_src[k].call = calls =>
                 /\ row_src[k].line \in Processed
                 /\ ScopedTransLine(rd, row_src[k].line)

\* A returned parse in which a well-formed transaction line followed the '}'
\* that closed a verification.
C1_Witness ==
    /\ pc = "returned"
    /\ \E rd \in {Readings} :
        \E m, n \in Processed :
            /\ m < n
            /\ rd[m].first = "}" /\ ScopeOpenAt(rd, m)
            /\ rd[n].first = "{" /\ ~ScopeOpenAt(rd, n)
            /\ Len(rd[n].trans) >= 3
            /\ ParseFloat(ReplaceComma(rd[n].trans[3])).ok

(* ------------------------------- C2 ------------------------------------ *)

\* Line n is a scoped transaction line with at least 3 tokens whose 3rd token
\* float() refuses after ',' is replaced by '.'.
BadAmountLine(rd, n) ==
    /\ ScopedTransLine(rd, n)
    /\ Len(rd[n].trans) >= 3
    /\ ~ParseFloat(ReplaceComma(rd[n].trans[3])).ok

\* C2 as stated: a transaction line whose amount does not convert still adds
\* a row, with amount 0.0, and a diagnostic is recorded for it.
C2_BadAmountKeepsRowAsZero ==
    \A rd \in {Readings} :
        \A n \in Processed :
            BadAmountLine(rd, n) =>
                /\ \E k \in RowsFrom(n) : transactions[k].amount = ZeroAmount
                /\ \E i \in 1..Len(parsing_details) : parsing_details[i].line = n

\* Line n is a scoped transaction line with at least 2 tokens and, if it has
\* a 3rd, one that float() accepts.
GoodTransLine(rd, n) ==
    /\ ScopedTransLine(rd, n)
    /\ Len(rd[n].trans) >= 2
    /\ Len(rd[n].trans) >= 3 => ParseFloat(ReplaceComma(rd[n].trans[3])).ok

\* C2 amended: a transaction line whose amount does not convert adds no row
\* and an error entry is recorded for it in the parsing details; the parse
\* goes on, and every well-formed transaction line after it adds its row.
C2_BadAmountDropsLine ==
    Returned => \A rd \in {Readings} :
        \A n \in Processed :
            BadAmountLine(rd, n) =>
                /\ RowsFrom(n) = {}
                /\ \E i \in 1..Len(parsing_details) :
                     parsing_details[i].line = n /\ parsing_details[i].kind = "error"
                /\ \A n2 \in Processed :
                     (n2 > n /\ GoodTransLine(rd, n2)) => Cardinality(RowsFrom(n2)) = 1

\* A returned parse that read such a line and, after it, a line that added a row.
C2_Witness ==
    /\ pc = "returned"
    /\ \E rd \in {Readings} :
        \E n, n2 \in Processed :
            /\ BadAmountLine(rd, n)
            /\ n < n2
            /\ RowsFrom(n2) # {}

(* ------------------------------- C3 ------------------------------------ *)

\* The call that has just ended was given no #VER record.
EndedWithoutVer ==
    /\ calls = 1
    /\ pc \in {"returned", "raised"}
    /\ \A raw \in {SplitLines(content)[n] : n \in 1..Len(SplitLines(content))} :
         ~IsRecord(ReadingOf(raw), KW_VER)

\* C3: a call on a fresh parser whose input has no #VER record, the empty
\* buffer included, raises nothing and returns the empty table under the full
\* column set, with every declared account in the metadata.
C3_NoVerGivesEmptyTable ==
    EndedWithoutVer =>
        /\ pc = "returned"
        /\ results[Len(results)].df = [columns |-> Columns, rows |-> <<>>]
        /\ \A rd \in {Readings} :
             \A n \in 1..Len(lines) :
                 (IsRecord(rd[n], KW_KONTO) /\ Len(rd[n].tokens) >= 2)
                     => rd[n].tokens[2] \in DictKeys(MetadataAccounts(results[Len(results)]))
        /\ \A rd \in {Readings} :
             \A n \in 1..Len(lines) :
                 (/\ IsRecord(rd[n], KW_FNAMN)
                  /\ \A n2 \in (n + 1)..Len(lines) : ~IsRecord(rd[n2], KW_FNAMN))
                     => results[Len(results)].metadata.company_name
                            = StripChars(JoinSp(From(rd[n].tokens, 1)), {QUOTE})

(* ------------------------------- C4 ------------------------------------ *)

\* The loop's state at the start of a call on a new instance.
NewLoopState ==
    [accounts |-> <<>>, transactions |-> <<>>, company_name |-> <<>>,
     fiscal_year |-> <<>>, current_ver |-> <<>>, parsing_ver |-> FALSE,
     line_types |-> <<>>, parsing_details |-> <<>>, row_src |-> <<>>]

RECURSIVE RunLines(_, _, _)
RunLines(st, ls, n) ==
    IF n > Len(ls) THEN st ELSE RunLines(LineStep(st, ls[n], n, 1), ls, n + 1)

\* What the lines of one input declare, on their own.
DeclaredBy(bytes) == RunLines(NewLoopState, SplitLines(Decode(bytes).text), 1)

\* C4: every result returned holds only what its own call's input declares:
\* its rows, its account mapping, its company name and its fiscal year.
C4_ResultsAreIndependent ==
    \A i \in 1..Len(results) :
        \A own \in {DeclaredBy(results[i].input)} :
            /\ results[i].df.rows = own.transactions
            /\ MetadataAccounts(results[i]) = own.accounts
            /\ results[i].metadata.company_name = own.company_name
            /\ results[i].metadata.fiscal_year = own.fiscal_year

(* ------------------------------- C5 ------------------------------------ *)

\* The accounts of the table and their net sums.
AccountsIn(rows) == {rows[i].account : i \in 1..Len(rows)}

\* The 0-based places of the nodes of an account, whatever its name.
PlacesOf(account) ==
    {i - 1 : i \in {j \in 1..Len(nodes) :
                       /\ Len(nodes[j]) >= Len(account) + 3
                       /\ SubSeq(nodes[j], 1, Len(account) + 3) = Label(account, <<>>)}}

PlaceOfOpening == {i - 1 : i \in {j \in 1..Len(nodes) : nodes[j] = OpeningLabel}}

\* The links between the opening node and a node of the account.
LinksOf(account) ==
    {i \in 1..Len(links) :
        \/ links[i].source \in PlacesOf(account) /\ links[i].target \in PlaceOfOpening
        \/ links[i].target \in PlacesOf(account) /\ links[i].source \in PlaceOfOpening}

\* C5: once generate_sankey_data has run, each account of the table has one
\* edge opening->account weighing its net sum if that is > 0, one edge
\* account->opening weighing the absolute net sum if it is < 0, no edge if it
\* is 0, and there is no other edge.
C5_OneEdgePerNonZeroAccount ==
    sk_pc # "ready" =>
        /\ sk_pc = "done"
        /\ \A a \in AccountsIn(df) :
             \A s \in {GroupSum(df, a)} :
                /\ s.m = 0 => LinksOf(a) = {}
                /\ s.m > 0 =>
                     /\ Cardinality(LinksOf(a)) = 1
                     /\ \A i \in LinksOf(a) :
                          /\ links[i].source \in PlaceOfOpening
                          /\ links[i].value = s
                /\ s.m < 0 =>
                     /\ Cardinality(LinksOf(a)) = 1
                     /\ \A i \in LinksOf(a) :
                          /\ links[i].target \in PlaceOfOpening
                          /\ links[i].value = AbsAmount(s)
        /\ \A i \in 1..Len(links) : \E a \in AccountsIn(df) : i \in LinksOf(a)

(* ------------------------------- C6 ------------------------------------ *)

\* The accounts of the table with a non-zero net sum.
FlowingAccounts == {a \in AccountsIn(df) : GroupSum(df, a).m # 0}

\* C6: the node list of a completed run is the opening node, once and first,
\* then exactly one node per account with a non-zero net sum and no other node.
C6_NodesAreTheFlowingAccounts ==
    sk_pc = "done" =>
        /\ nodes[1] = OpeningLabel
        /\ Cardinality(PlaceOfOpening) = 1
        /\ \A a \in FlowingAccounts : Cardinality(PlacesOf(a)) = 1
        /\ Len(nodes) = 1 + Cardinality(FlowingAccounts)

(* ------------------------------- C7 ------------------------------------ *)

\* C7: an account of the table with a non-zero net sum that the mapping does
\* not have does not make generate_sankey_data fail: the run completes, with
\* a node labelled "<number> - Okänt konto" that a link of the account refers to.
C7_UndeclaredAccountGetsNode ==
    (sk_pc # "ready") =>
        \A a \in FlowingAccounts \ DictKeys(sk_accounts) :
            /\ sk_pc = "done"
            /\ \E j \in 1..Len(nodes) :
                 /\ nodes[j] = Label(a, UnknownName)
                 /\ \E i \in 1..Len(links) :
                      links[i].source = j - 1 \/ links[i].target = j - 1

(* ------------------------------- C8 ------------------------------------ *)

\* The reading is of a #KONTO line that declares an account number.
DeclaresAccount(r) == IsRecord(r, KW_KONTO) /\ Len(r.tokens) >= 2

\* The name a #KONTO line gives: the tokens after the number, joined.
NameGiven(r) == JoinSp(From(r.tokens, 2))

\* The processed lines that declare the account number num.
Declarations(rd, num) ==
    {m \in Processed : DeclaresAccount(rd[m]) /\ rd[m].tokens[2] = num}

\* The last of them.
LastDeclaration(rd, num) ==
    CHOOSE m \in Declarations(rd, num) : \A j \in Declarations(rd, num) : j <= m

\* C8: every account number declared by a #KONTO line read so far is mapped
\* to the name given by the last such line for that number.
C8_LastKontoWins ==
    Returned => \A rd \in {Readings} :
        \A n \in Processed :
            DeclaresAccount(rd[n]) =>
                /\ rd[n].tokens[2] \in DictKeys(accounts)
                /\ DictGet(accounts, rd[n].tokens[2])
                       = NameGiven(rd[LastDeclaration(rd, rd[n].tokens[2])])

\* A returned parse that read two #KONTO lines for one number, the first
\* giving a name and the second another.
C8_Witness ==
    /\ pc = "returned"
    /\ \E rd \in {Readings} :
        \E m, n \in Processed :
            /\ m < n
            /\ DeclaresAccount(rd[m]) /\ DeclaresAccount(rd[n])
            /\ rd[m].tokens[2] = rd[n].tokens[2]
            /\ NameGiven(rd[m]) # NameGiven(rd[n])
            /\ NameGiven(rd[m]) # <<>>
            /\ NameGiven(rd[n]) # <<>>

(* ------------------------------- C9 ------------------------------------ *)

\* tok stands in raw between double quotes.
WrittenQuoted(raw, tok) ==
    \E i \in 1..Len(raw) :
        /\ i + Len(tok) + 1 <= Len(raw)
        /\ SubSeq(raw, i, i + Len(tok) + 1) = <<QUOTE>> \o tok \o <<QUOTE>>

\* Line m is a #VER line whose 5th token is a double-quoted string.
QuotedTextVer(rd, m) ==
    /\ IsRecord(rd[m], KW_VER)
    /\ Len(rd[m].tokens) >= 5
    /\ WrittenQuoted(lines[m], rd[m].tokens[5])

\* The rows added in the scope of #VER line m from lines with fewer than 4
\* tokens all have description text.
ShortRowsDescribedBy(rd, m, text) ==
    \A n \in Processed :
        (n > m /\ ScopedTransLine(rd, n) /\ OwnerVer(rd, n) = m /\ Len(rd[n].trans) < 4)
            => \A k \in RowsFrom(n) : transactions[k].description = text

\* While the verification that line m opened is the current one, its text is text.
OpenTextIs(m, text) ==
    (current_ver # <<>> /\ m = line_num - 1) => current_ver[1].text = text

\* C9 as stated: a #VER line whose 5th token is a double-quoted string gives
\* the quoted content as the verification text, and the rows of its short
\* transaction lines have it as description.
C9_QuotedFifthTokenIsText ==
    \A rd \in {Readings} :
        \A m \in Processed :
            QuotedTextVer(rd, m) =>
                /\ OpenTextIs(m, rd[m].tokens[5])
                /\ ShortRowsDescribedBy(rd, m, rd[m].tokens[5])

\* C9 amended: a #VER line of exactly five tokens, the 5th a double-quoted
\* string, gives the quoted content, spaces kept, as the verification text,
\* and every row added in its scope from a transaction line with fewer than 4
\* tokens has exactly that text as description.
C9_QuotedLastTokenIsText ==
    Returned => \A rd \in {Readings} :
        \A m \in Processed :
            (QuotedTextVer(rd, m) /\ Len(rd[m].tokens) = 5) =>
                /\ OpenTextIs(m, rd[m].tokens[5])
                /\ ShortRowsDescribedBy(rd, m, rd[m].tokens[5])

\* A returned parse with a row from a 3-token transaction line in the scope
\* of a five-token #VER line whose quoted text has two spaces in a row.
C9_Witness ==
    /\ pc = "returned"
    /\ \E rd \in {Readings} :
        \E m, n \in Processed :
            /\ QuotedTextVer(rd, m) /\ Len(rd[m].tokens) = 5
            /\ \E i \in 1..(Len(rd[m].tokens[5]) - 1) :
                 rd[m].tokens[5][i] = " " /\ rd[m].tokens[5][i + 1] = " "
            /\ n > m /\ ScopedTransLine(rd, n) /\ OwnerVer(rd, n) = m
            /\ Len(rd[n].trans) = 3
            /\ \E k \in RowsFrom(n) : transactions[k].description = rd[m].tokens[5]

(* ------------------------------- C10 ----------------------------------- *)

\* Line n is a scoped transaction line with fewer than 2 tokens.
ShortTransLine(rd, n) == ScopedTransLine(rd, n) /\ Len(rd[n].trans) < 2

\* C10: a scoped transaction line with fewer than 2 tokens adds no row, gets
\* an entry in the parsing details, leaves the scope open and does not abort
\* the parse.
C10_ShortLineIsRecorded ==
    \A rd \in {Readings} :
        \A n \in Processed :
            ShortTransLine(rd, n) =>
                /\ RowsFrom(n) = {}
                /\ \E i \in 1..Len(parsing_details) : parsing_details[i].line = n
                /\ (n = line_num - 1 => parsing_ver)
                /\ pc # "raised"

(* ------------------------------- C11 ----------------------------------- *)

\* The number of tokens a line has after its identifier.
TokensAfterIdentifier(r) == Len(r.tokens) - 1

\* The reading is of a #KONTO line with fewer than 2 tokens after the
\* identifier: the bare identifier, or the identifier and a number only.
ShortKontoLine(r) == IsRecord(r, KW_KONTO) /\ TokensAfterIdentifier(r) < 2

\* The loop is about to read a line with such a reading.
AtShortKontoLine ==
    /\ pc = "loop"
    /\ line_num <= Len(lines)
    /\ ShortKontoLine(ReadingOf(lines[line_num]))

\* C11: the step that reads a #KONTO line with fewer than 2 tokens after the
\* identifier leaves the account mapping as it was, no entry added and no
\* name overwritten, and the loop goes on to the next line.
C11_ShortKontoLeavesAccounts ==
    [][AtShortKontoLine =>
          /\ accounts' = accounts
          /\ pc' = "loop"
          /\ line_num' = line_num + 1]_vars

====
